---- MODULE Spec2Model ----
(***************************************************************************)
(* A model of the evm-test command line helper: run_cli (src/evm_cli.py)   *)
(* driving EVMClient (src/evm_client/client.py) against one JSON-RPC       *)
(* endpoint.  One behaviour is one invocation of run_cli; every action is  *)
(* one statement of run_cli together with the client method it calls.      *)
(*                                                                         *)
(* Texts the code inspects character by character (addresses, call         *)
(* parameters, hex strings) are sequences of one-character strings.        *)
(* Python values are tagged records [t |-> tag, v |-> payload].            *)
(***************************************************************************)
EXTENDS Integers, Sequences, FiniteSets, TLC

VARIABLES
    pc,         \* position in run_cli
    command,    \* args.command
    address,    \* args.address (balance, tx-count)
    block_identifier, \* args.block_identifier
    method,     \* args.method (call)
    params,     \* args.params (call): the raw texts
    reachable,  \* endpoint: answers the liveness probe
    height,     \* endpoint: current block height
    rpcResult,  \* endpoint: decoded response tree of the generic method
    client,     \* "none" | "ok": the EVMClient of run_cli
    calls,      \* client operations invoked so far: [op, ok]
    queries,    \* requests the endpoint has received: [method, params]
    info,       \* local of run_cli: chain_id and block_number read so far
    balance,    \* local of run_cli: the Balance
    count,      \* local of run_cli: the transaction count
    parsed,     \* local of run_cli: _load_params(args.params)
    result,     \* local of run_cli: call_method's return value
    normalised, \* _normalise(result), the argument of json.dumps
    stdout,     \* what was printed to standard output
    stderr,     \* what was printed to standard error
    exitCode,   \* -1 while run_cli has not returned, else its return value
    error       \* [kind, at]: the exception that left run_cli, kind "" if none

vars == <<pc, command, address, block_identifier, method, params, reachable,
          height, rpcResult, client, calls, queries, info, balance, count, parsed,
          result, normalised, stdout, stderr, exitCode, error>>

(***************************************************************************)
(* Bounds of the model.                                                    *)
(***************************************************************************)
AddrDigits == 2     \* hex digits of an address (40 on a real chain)
MaxWei == 21        \* largest balance the endpoint reports
MaxBlock == 17      \* largest block height
MaxNonce == 2       \* largest transaction count
MaxParams == 2      \* most parameters of one call
MaxChars == 3       \* most characters over all parameters of one call
MaxNodes == 3       \* most nodes of a response tree

\* the scale of from_wei(..., "ether")
EtherDecimals == 18

(***************************************************************************)
(* Python values.                                                          *)
(***************************************************************************)
VNull == [t |-> "null", v |-> 0]
VInt(n) == [t |-> "int", v |-> n]
VFloat(n) == [t |-> "float", v |-> n]          \* the float n + 1/2, n >= 0
VNaN == [t |-> "float", v |-> -1]              \* the float nan
VStr(s) == [t |-> "str", v |-> s]
VBytes(b) == [t |-> "bytes", v |-> b]          \* b: sequence of 0..255
VObj(o) == [t |-> "obj", v |-> o]              \* an object with a hex method
VList(xs) == [t |-> "list", v |-> xs]
VTuple(xs) == [t |-> "tuple", v |-> xs]
VAttrDict(kvs) == [t |-> "adict", v |-> kvs]   \* kvs: sequence of [k, val]
VDict(kvs) == [t |-> "dict", v |-> kvs]

HexDigits == <<"0", "1", "2", "3", "4", "5", "6", "7",
               "8", "9", "a", "b", "c", "d", "e", "f">>

DecDigits == <<"0", "1", "2", "3", "4", "5", "6", "7", "8", "9">>

RECURSIVE Repeat(_, _)
Repeat(c, n) == IF n <= 0 THEN <<>> ELSE <<c>> \o Repeat(c, n - 1)

\* str(n) of an int
RECURSIVE NatStr(_)
NatStr(n) == IF n < 10 THEN <<DecDigits[n + 1]>>
             ELSE NatStr(n \div 10) \o <<DecDigits[(n % 10) + 1]>>

IntStr(n) == IF n < 0 THEN <<"-">> \o NatStr(-n) ELSE NatStr(n)

(***************************************************************************)
(* Web3.to_checksum_address (client.py lines 82 and 92): the text is       *)
(* accepted when, after an optional 0x prefix, it is AddrDigits hex        *)
(* digits; it is lower-cased, and each letter is upper-cased where the     *)
(* hash of the lower-cased digits says so.                                 *)
(***************************************************************************)
Lower(c) == CASE c = "A" -> "a" [] c = "B" -> "b" [] c = "C" -> "c"
              [] c = "D" -> "d" [] c = "E" -> "e" [] c = "F" -> "f"
              [] c = "X" -> "x" [] OTHER -> c

Upper(c) == CASE c = "a" -> "A" [] c = "b" -> "B" [] c = "c" -> "C"
              [] c = "d" -> "D" [] c = "e" -> "E" [] c = "f" -> "F"
              [] OTHER -> c

LowerAll(s) == [i \in 1..Len(s) |-> Lower(s[i])]

IsHexChar(c) == \E i \in 1..16 : HexDigits[i] = Lower(c)

HexVal(c) == CHOOSE i \in 0..15 : HexDigits[i + 1] = Lower(c)

Has0xPrefix(s) == Len(s) >= 2 /\ s[1] = "0" /\ Lower(s[2]) = "x"

remove_0x_prefix(s) == IF Has0xPrefix(s) THEN SubSeq(s, 3, Len(s)) ELSE s

is_address(s) ==
    /\ Len(remove_0x_prefix(s)) = AddrDigits
    /\ \A i \in 1..Len(remove_0x_prefix(s)) : IsHexChar(remove_0x_prefix(s)[i])

\* the digits of the address, lower-cased, without prefix
NormalizedDigits(s) == LowerAll(remove_0x_prefix(s))

RECURSIVE WeightedSum(_, _)
WeightedSum(d, n) ==
    IF n = 0 THEN 0 ELSE WeightedSum(d, n - 1) + (2 * n + 1) * HexVal(d[n])

\* nibble i of the address hash; it is a function of the lower-cased digits
HashNibble(d, i) == (WeightedSum(d, Len(d)) + 5 * i) % 16

ChecksumDigits(s) ==
    [i \in 1..Len(NormalizedDigits(s)) |->
        IF HashNibble(NormalizedDigits(s), i) > 7
        THEN Upper(NormalizedDigits(s)[i]) ELSE NormalizedDigits(s)[i]]

to_checksum_address(s) == <<"0", "x">> \o ChecksumDigits(s)

(***************************************************************************)
(* JSON-RPC quantities: the endpoint sends integers as 0x-prefixed hex     *)
(* strings; the typed methods of the library decode them, the generic      *)
(* request does not.                                                       *)
(***************************************************************************)
RECURSIVE HexNat(_)
HexNat(n) == IF n < 16 THEN <<HexDigits[n + 1]>>
             ELSE HexNat(n \div 16) \o <<HexDigits[(n % 16) + 1]>>

HexQuantity(n) == <<"0", "x">> \o HexNat(n)

RECURSIVE HexDigitsValue(_)
HexDigitsValue(d) ==
    IF Len(d) = 0 THEN 0
    ELSE 16 * HexDigitsValue(SubSeq(d, 1, Len(d) - 1)) + HexVal(d[Len(d)])

to_integer_if_hex(s) == HexDigitsValue(remove_0x_prefix(s))

(***************************************************************************)
(* Web3.from_wei(wei, "ether") (client.py line 84): a Decimal, the         *)
(* coefficient coef and the exponent exp standing for coef * 10^exp.       *)
(* The quotient wei / 10^EtherDecimals is computed exactly; a quotient's   *)
(* exponent is as close to 0 as the digits allow.                          *)
(***************************************************************************)
Dec(c, e) == [coef |-> c, exp |-> e]

RECURSIVE TrailingZeros(_)
TrailingZeros(n) == IF n = 0 \/ n % 10 # 0 THEN 0
                    ELSE 1 + TrailingZeros(n \div 10)

Min(a, b) == IF a < b THEN a ELSE b

\* the quotient kept to one place less
from_wei_truncated(wei) == Dec(wei \div 10, 1 - EtherDecimals)

from_wei(wei) ==
    IF wei = 0 THEN Dec(0, 0)
    ELSE Dec(wei \div (10 ^ Min(EtherDecimals, TrailingZeros(wei))),
             Min(EtherDecimals, TrailingZeros(wei)) - EtherDecimals)

\* str(d) of a non-negative Decimal
DecimalStr(d) ==
    LET digits == NatStr(d.coef)
        leftdigits == d.exp + Len(digits)
        dotplace == IF d.exp <= 0 /\ leftdigits > -6 THEN leftdigits ELSE 1
        intpart == IF dotplace <= 0 THEN <<"0">>
                   ELSE IF dotplace >= Len(digits)
                        THEN digits \o Repeat("0", dotplace - Len(digits))
                        ELSE SubSeq(digits, 1, dotplace)
        fracpart == IF dotplace <= 0
                    THEN <<".">> \o Repeat("0", -dotplace) \o digits
                    ELSE IF dotplace >= Len(digits) THEN <<>>
                         ELSE <<".">> \o SubSeq(digits, dotplace + 1, Len(digits))
        e == leftdigits - dotplace
        exppart == IF e = 0 THEN <<>>
                   ELSE <<"E", IF e < 0 THEN "-" ELSE "+">>
                        \o NatStr(IF e < 0 THEN -e ELSE e)
    IN intpart \o fracpart \o exppart


(***************************************************************************)
(* json.loads on one parameter text (evm_cli.py line 75), as the decoder   *)
(* scans it: leading whitespace, one value chosen by its first character, *)
(* trailing whitespace, end of text.  The texts of the model are made of  *)
(* ParamChars, so the values are integers, strings and the constant NaN    *)
(* that the decoder accepts.                                               *)
(***************************************************************************)
ParamChars == {"4", "0", "-", "\"", "a", "N", " "}

IsDigit(c) == c \in {"0", "1", "2", "3", "4", "5", "6", "7", "8", "9"}

DecVal(c) == CHOOSE i \in 0..9 : DecDigits[i + 1] = c

\* the first index from i on that holds no whitespace (Len(s) + 1 if none)
RECURSIVE SkipWhitespace(_, _)
SkipWhitespace(s, i) ==
    IF i <= Len(s) /\ s[i] = " " THEN SkipWhitespace(s, i + 1) ELSE i

\* the first index from i on that holds no digit
RECURSIVE SkipDigits(_, _)
SkipDigits(s, i) ==
    IF i <= Len(s) /\ IsDigit(s[i]) THEN SkipDigits(s, i + 1) ELSE i

\* the first index from i on that holds a quote (Len(s) + 1 if none)
RECURSIVE FindQuote(_, _)
FindQuote(s, i) ==
    IF i <= Len(s) /\ s[i] # "\"" THEN FindQuote(s, i + 1) ELSE i

RECURSIVE DigitsValue(_)
DigitsValue(d) ==
    IF Len(d) = 0 THEN 0
    ELSE 10 * DigitsValue(SubSeq(d, 1, Len(d) - 1)) + DecVal(d[Len(d)])

\* [ok, val, end]: the value that starts at index i and the index after it
ScanNumber(s, i) ==
    LET first == IF s[i] = "-" THEN i + 1 ELSE i
        end == IF first <= Len(s) /\ s[first] = "0" THEN first + 1
               ELSE SkipDigits(s, first)
    IN IF end = first THEN [ok |-> FALSE, val |-> VNull, end |-> i]
       ELSE [ok |-> TRUE, end |-> end,
             val |-> VInt((IF first > i THEN -1 ELSE 1)
                          * DigitsValue(SubSeq(s, first, end - 1)))]

ScanString(s, i) ==
    LET close == FindQuote(s, i + 1)
    IN IF close > Len(s) THEN [ok |-> FALSE, val |-> VNull, end |-> i]
       ELSE [ok |-> TRUE, end |-> close + 1,
             val |-> VStr(SubSeq(s, i + 1, close - 1))]

ScanOnce(s, i) ==
    IF i > Len(s) THEN [ok |-> FALSE, val |-> VNull, end |-> i]
    ELSE IF s[i] = "\"" THEN ScanString(s, i)
    ELSE IF s[i] = "-" \/ IsDigit(s[i]) THEN ScanNumber(s, i)
    ELSE IF s[i] = "N" /\ i + 2 <= Len(s) /\ SubSeq(s, i, i + 2) = <<"N", "a", "N">>
    THEN [ok |-> TRUE, val |-> VNaN, end |-> i + 3]
    ELSE [ok |-> FALSE, val |-> VNull, end |-> i]

\* [ok, val]: ok is FALSE where json.loads raises JSONDecodeError
json_loads(s) ==
    LET got == ScanOnce(s, SkipWhitespace(s, 1))
    IN IF got.ok /\ SkipWhitespace(s, got.end) = Len(s) + 1
       THEN [ok |-> TRUE, val |-> got.val]
       ELSE [ok |-> FALSE, val |-> VNull]

\* the turn of the loop without its except branch
LoadParamNoFallback(text) == json_loads(text).val

\* one turn of the loop of _load_params
LoadParam(text) ==
    IF json_loads(text).ok THEN json_loads(text).val ELSE VStr(text)

_load_params(texts) == [i \in 1..Len(texts) |-> LoadParam(texts[i])]

(***************************************************************************)
(* _normalise (evm_cli.py lines 54-68).                                    *)
(***************************************************************************)
\* the digits in upper case
ByteHexUpper(b) == <<Upper(HexDigits[(b \div 16) + 1]), Upper(HexDigits[(b % 16) + 1])>>

ByteHex(b) == <<HexDigits[(b \div 16) + 1], HexDigits[(b % 16) + 1]>>

RECURSIVE HexOfBytes(_)
HexOfBytes(b) ==
    IF Len(b) = 0 THEN <<>> ELSE ByteHex(b[1]) \o HexOfBytes(Tail(b))

\* binascii.hexlify: the hex digits as bytes, not as a str
BytesHexlify(b) ==
    VBytes([i \in 1..Len(HexOfBytes(b)) |-> 48 + HexVal(HexOfBytes(b)[i])])

\* bytes.hex(): line 62
BytesHex(b) == VStr(HexOfBytes(b))

\* float.hex(): a str
FloatHex(n) ==
    IF n < 0 THEN VStr(<<"n", "a", "n">>)
    ELSE VStr(<<"0", "x">> \o NatStr(n) \o <<".", "8", "p", "+", "0">>)

\* the branch of line 63 is taken: the value is no AttributeDict, list,
\* tuple or bytes and has a callable attribute hex
HasHexMethod(v) == v.t \in {"float", "obj"}

\* "" when v.hex() returns, else the exception it raises
HexMethodError(v) == IF v.t = "obj" THEN v.v ELSE ""

HexMethod(v) == IF v.t = "float" THEN FloatHex(v.v) ELSE v

\* every exception of the hex method caught
NormaliseErrorCatchAll(v) == ""

\* "" when _normalise(v) returns, else the exception that leaves it

RECURSIVE NormaliseError(_)
NormaliseError(v) ==
    IF v.t = "adict"
    THEN IF \E i \in 1..Len(v.v) : NormaliseError(v.v[i].val) # ""
         THEN NormaliseError(v.v[CHOOSE i \in 1..Len(v.v) :
                  /\ NormaliseError(v.v[i].val) # ""
                  /\ \A j \in 1..(i - 1) : NormaliseError(v.v[j].val) = ""].val)
         ELSE ""
    ELSE IF v.t \in {"list", "tuple"}
    THEN IF \E i \in 1..Len(v.v) : NormaliseError(v.v[i]) # ""
         THEN NormaliseError(v.v[CHOOSE i \in 1..Len(v.v) :
                  /\ NormaliseError(v.v[i]) # ""
                  /\ \A j \in 1..(i - 1) : NormaliseError(v.v[j]) = ""])
         ELSE ""
    ELSE IF v.t = "bytes" THEN ""
    ELSE IF HasHexMethod(v) /\ HexMethodError(v) # "TypeError"
    THEN HexMethodError(v)
    ELSE ""

\* the value _normalise(v) returns, where it returns
RECURSIVE _normalise(_)
_normalise(v) ==
    IF v.t = "adict"
    THEN VDict([i \in 1..Len(v.v) |->
                   [k |-> v.v[i].k, val |-> _normalise(v.v[i].val)]])
    ELSE IF v.t = "list"
    THEN VList([i \in 1..Len(v.v) |-> _normalise(v.v[i])])
    ELSE IF v.t = "tuple"
    THEN VTuple([i \in 1..Len(v.v) |-> _normalise(v.v[i])])
    ELSE IF v.t = "bytes" THEN BytesHex(v.v)
    ELSE IF HasHexMethod(v) /\ HexMethodError(v) = "" THEN HexMethod(v)
    ELSE v

\* json.dumps accepts the value (line 111)
RECURSIVE JsonSerialisable(_)
JsonSerialisable(v) ==
    IF v.t \in {"list", "tuple"}
    THEN \A i \in 1..Len(v.v) : JsonSerialisable(v.v[i])
    ELSE IF v.t = "dict"
    THEN \A i \in 1..Len(v.v) : JsonSerialisable(v.v[i].val)
    ELSE v.t \in {"null", "int", "float", "str"}

(***************************************************************************)
(* The inputs of the model.                                                *)
(***************************************************************************)
Commands == {"info", "balance", "tx-count", "call"}

Blocks == {"latest", "5"}

AddrChars == {"a", "B", "1", "g"}

\* the texts of n characters, and of at most n characters
RECURSIVE TextsOfLen(_, _)
TextsOfLen(chars, n) ==
    IF n = 0 THEN {<<>>}
    ELSE {Append(t, c) : t \in TextsOfLen(chars, n - 1), c \in chars}

Texts(chars, n) == UNION {TextsOfLen(chars, k) : k \in 0..n}

\* address texts: with or without 0x, one digit too few to one too many
Addresses ==
    Texts(AddrChars, AddrDigits + 1)
    \cup {<<"0", "x">> \o t : t \in Texts(AddrChars, AddrDigits + 1)}

\* lists of at most n parameter texts of c characters in all
RECURSIVE ParamLists(_, _)
ParamLists(n, c) ==
    IF n = 0 THEN {<<>>}
    ELSE {<<>>} \cup UNION {{<<t>> \o r : t \in TextsOfLen(ParamChars, k),
                                          r \in ParamLists(n - 1, c - k)}
                            : k \in 0..c}

Leaves == {VNull, VInt(1), VFloat(1), VStr(<<"a", "B">>), VBytes(<<>>),
           VBytes(<<171, 5>>), VObj("TypeError"), VObj("ValueError")}

Key(i) == <<"k">> \o NatStr(i)

Container(kind, kids) ==
    IF kind = "adict"
    THEN VAttrDict([i \in 1..Len(kids) |-> [k |-> Key(i), val |-> kids[i]]])
    ELSE [t |-> kind, v |-> kids]

ContainerKinds == {"adict", "list", "tuple"}

\* response trees of exactly n nodes, and sequences of trees of n nodes in all
RECURSIVE Trees(_)
RECURSIVE KidSeqs(_)
KidSeqs(n) ==
    IF n = 0 THEN {<<>>}
    ELSE UNION {{<<t>> \o r : t \in Trees(k), r \in KidSeqs(n - k)}
                : k \in 1..n}

Trees(n) ==
    IF n = 1 THEN Leaves \cup {Container(c, <<>>) : c \in ContainerKinds}
    ELSE {Container(c, ks) : c \in ContainerKinds, ks \in KidSeqs(n - 1)}

Responses == UNION {Trees(n) : n \in 1..MaxNodes}


SmallParamLists == {<<>>, <<<<"4">>>>, <<<<"a">>, <<"\"", "4", "\"">>>>}

SmallResponses == {VStr(<<"0", "x", "6", "0">>), VBytes(<<171, 5>>),
                   VList(<<VObj("TypeError")>>), VObj("ValueError"),
                   VAttrDict(<<[k |-> Key(1), val |-> VInt(1)]>>)}

Methods == {"eth_blockNumber", "eth_getCode"}

ChainIds == {1, 137}

NoError == [kind |-> "", at |-> ""]

\* the locals of run_cli before the client is built (line 82)
InitLocals ==
    /\ pc = "start"
    /\ client = "none"
    /\ calls = <<>>
    /\ queries = <<>>
    /\ info = [chain_id |-> 0, block_number |-> 0]
    /\ balance = [wei |-> 0, ether |-> Dec(0, 0)]
    /\ count = 0
    /\ parsed = <<>>
    /\ result = VNull
    /\ normalised = VNull
    /\ stdout = <<>>
    /\ stderr = <<>>
    /\ exitCode = -1
    /\ error = NoError

\* the arguments parse_args accepts (lines 15-51), and the endpoint
Init ==
    /\ command \in Commands
    /\ address \in IF command \in {"balance", "tx-count"}
                   THEN Addresses ELSE {<<>>}
    /\ block_identifier \in IF command \in {"balance", "tx-count"}
                 THEN Blocks ELSE {"latest"}
    /\ method \in IF command = "call" THEN Methods ELSE {""}
    /\ params \in IF command = "call" THEN SmallParamLists ELSE {<<>>}
    /\ reachable \in BOOLEAN
    /\ height \in IF command \in {"info", "call"} THEN 0..MaxBlock ELSE {0}
    /\ rpcResult \in IF command = "call" /\ method # "eth_blockNumber"
                     THEN SmallResponses ELSE {VNull}
    /\ InitLocals

\* one call command against a reachable endpoint: every parameter list with
\* one response, and every response with no parameter
InitCall ==
    /\ command = "call"
    /\ address = <<>>
    /\ block_identifier = "latest"
    /\ reachable = TRUE
    /\ height = MaxBlock
    /\ \/ /\ params \in ParamLists(MaxParams, MaxChars)
          /\ method = "eth_getCode"
          /\ rpcResult = VNull
       \/ /\ rpcResult \in Responses
          /\ method = "eth_getCode"
          /\ params = <<>>
    /\ InitLocals

argsVars == <<command, address, block_identifier, method, params, reachable,
              height, rpcResult>>

localVars == <<info, balance, count, parsed, result, normalised>>

\* a request with the endpoint's reply; the reply is lost where the round
\* trip fails
Query(m, ps, reply) == [method |-> m, params |-> ps, reply |-> reply]

Lost == [t |-> "lost", v |-> 0]

Call(op, ok) == [op |-> op, ok |-> ok]

\* an exception leaves run_cli
Raise(kind, at) ==
    /\ pc' = "raised"
    /\ error' = [kind |-> kind, at |-> at]
    /\ UNCHANGED <<stdout, stderr, exitCode>>

\* print(text) and return 0
PrintAndReturn(fmt, val) ==
    /\ stdout' = Append(stdout, [fmt |-> fmt, val |-> val])
    /\ exitCode' = 0
    /\ pc' = "done"
    /\ UNCHANGED <<stderr, error>>

(***************************************************************************)
(* run_cli, lines 83-87, with EVMClient.__init__.                          *)
(***************************************************************************)
ConstructOk ==
    /\ pc = "start"
    /\ reachable
    /\ client' = "ok"
    /\ queries' = Append(queries, Query("web3_clientVersion", <<>>, VStr(<<"node">>)))
    /\ pc' = "dispatch"
    /\ UNCHANGED <<argsVars, localVars, calls, stdout, stderr, exitCode, error>>

\* the message printed without file=sys.stderr
ConstructFailToStdout ==
    /\ pc = "start"
    /\ ~reachable
    /\ stdout' = Append(stdout, [fmt |-> "line", val |-> VStr(<<"Connection failed: ">>)])
    /\ exitCode' = 1
    /\ pc' = "done"
    /\ UNCHANGED <<argsVars, localVars, client, calls, queries, stderr, error>>

ConstructFail ==
    /\ pc = "start"
    /\ ~reachable
    /\ stderr' = Append(stderr,
                        [prefix |-> "Connection failed: ",
                         detail |-> "Unable to connect to the RPC endpoint. Check the URL and network connectivity."])
    /\ exitCode' = 1
    /\ pc' = "done"
    /\ UNCHANGED <<argsVars, localVars, client, calls, queries, stdout, error>>

(***************************************************************************)
(* info, lines 89-95, with EVMClient.chain_id and EVMClient.block_number.  *)
(* The endpoint replies with a quantity; the typed methods of the library  *)
(* decode it.                                                              *)
(***************************************************************************)
InfoChainId ==
    /\ pc = "dispatch"
    /\ command = "info"
    /\ \/ /\ \E c \in ChainIds :
                /\ queries' = Append(queries,
                       Query("eth_chainId", <<>>, VStr(HexQuantity(c))))
                /\ info' = [info EXCEPT !.chain_id = to_integer_if_hex(HexQuantity(c))]
          /\ calls' = Append(calls, Call("chain_id", TRUE))
          /\ pc' = "info_block_number"
          /\ UNCHANGED <<stdout, stderr, exitCode, error>>
       \/ /\ queries' = Append(queries, Query("eth_chainId", <<>>, Lost))
          /\ calls' = Append(calls, Call("chain_id", FALSE))
          /\ Raise("TransportError", "chain_id")
          /\ UNCHANGED info
    /\ UNCHANGED <<argsVars, client, balance, count, parsed, result, normalised>>

\* the endpoint's reply to eth_blockNumber
BlockNumberReply(h) == HexQuantity(h)

\* EVMClient.block_number (client.py line 65)
block_number(h) == to_integer_if_hex(BlockNumberReply(h))

\* the failure caught and reported like a connection failure
InfoBlockNumberRecovered ==
    /\ pc = "info_block_number"
    /\ \/ /\ queries' = Append(queries,
                 Query("eth_blockNumber", <<>>, VStr(BlockNumberReply(height))))
          /\ info' = [info EXCEPT !.block_number = block_number(height)]
          /\ calls' = Append(calls, Call("block_number", TRUE))
          /\ pc' = "info_print"
          /\ UNCHANGED <<stdout, stderr, exitCode, error>>
       \/ /\ queries' = Append(queries, Query("eth_blockNumber", <<>>, Lost))
          /\ calls' = Append(calls, Call("block_number", FALSE))
          /\ stderr' = Append(stderr, [prefix |-> "Connection failed: ",
                                       detail |-> "block_number"])
          /\ exitCode' = 1
          /\ pc' = "done"
          /\ UNCHANGED <<info, stdout, error>>
    /\ UNCHANGED <<argsVars, client, balance, count, parsed, result, normalised>>

InfoBlockNumber ==
    /\ pc = "info_block_number"
    /\ \/ /\ queries' = Append(queries,
                 Query("eth_blockNumber", <<>>, VStr(BlockNumberReply(height))))
          /\ info' = [info EXCEPT !.block_number = block_number(height)]
          /\ calls' = Append(calls, Call("block_number", TRUE))
          /\ pc' = "info_print"
          /\ UNCHANGED <<stdout, stderr, exitCode, error>>
       \/ /\ queries' = Append(queries, Query("eth_blockNumber", <<>>, Lost))
          /\ calls' = Append(calls, Call("block_number", FALSE))
          /\ Raise("TransportError", "block_number")
          /\ UNCHANGED info
    /\ UNCHANGED <<argsVars, client, balance, count, parsed, result, normalised>>

\* the branch without its return: it falls through to line 114
InfoPrintNoReturn ==
    /\ pc = "info_print"
    /\ stdout' = Append(stdout, [fmt |-> "json",
           val |-> VDict(<<[k |-> <<"chain_id">>, val |-> VInt(info.chain_id)],
                           [k |-> <<"block_number">>, val |-> VInt(info.block_number)]>>)])
    /\ pc' = "raised"
    /\ error' = [kind |-> "AssertionError", at |-> "run_cli"]
    /\ UNCHANGED <<argsVars, localVars, client, calls, queries, stderr, exitCode>>

InfoPrint ==
    /\ pc = "info_print"
    /\ PrintAndReturn("json",
           VDict(<<[k |-> <<"chain_id">>, val |-> VInt(info.chain_id)],
                   [k |-> <<"block_number">>, val |-> VInt(info.block_number)]>>))
    /\ UNCHANGED <<argsVars, localVars, client, calls, queries>>

(***************************************************************************)
(* balance, lines 97-101, with EVMClient.get_balance.                      *)
(***************************************************************************)
\* the address as typed, not checksummed
AddressParamRaw(a) == VStr(a)

\* the address parameter of a query (client.py lines 82 and 92)
AddressParam(a) == VStr(to_checksum_address(a))

BlockParam(b) == VStr(<<b>>)

BalanceGet ==
    /\ pc = "dispatch"
    /\ command = "balance"
    /\ \/ /\ ~is_address(address)
          /\ calls' = Append(calls, Call("get_balance", FALSE))
          /\ Raise("ValueError", "to_checksum_address")
          /\ UNCHANGED <<queries, balance>>
       \/ /\ is_address(address)
          /\ \E wei \in 0..MaxWei :
                /\ queries' = Append(queries,
                       Query("eth_getBalance",
                             <<AddressParam(address), BlockParam(block_identifier)>>,
                             VStr(HexQuantity(wei))))
                /\ balance' = [wei |-> to_integer_if_hex(HexQuantity(wei)),
                               ether |-> from_wei(to_integer_if_hex(HexQuantity(wei)))]
          /\ calls' = Append(calls, Call("get_balance", TRUE))
          /\ pc' = "balance_print"
          /\ UNCHANGED <<stdout, stderr, exitCode, error>>
       \/ /\ is_address(address)
          /\ queries' = Append(queries,
                 Query("eth_getBalance",
                       <<AddressParam(address), BlockParam(block_identifier)>>, Lost))
          /\ calls' = Append(calls, Call("get_balance", FALSE))
          /\ Raise("TransportError", "get_balance")
          /\ UNCHANGED balance
    /\ UNCHANGED <<argsVars, client, info, count, parsed, result, normalised>>

BalancePrint ==
    /\ pc = "balance_print"
    /\ PrintAndReturn("json",
           VDict(<<[k |-> <<"wei">>, val |-> VStr(IntStr(balance.wei))],
                   [k |-> <<"ether">>, val |-> VStr(DecimalStr(balance.ether))]>>))
    /\ UNCHANGED <<argsVars, localVars, client, calls, queries>>

(***************************************************************************)
(* tx-count, lines 103-106, with EVMClient.get_transaction_count.          *)
(***************************************************************************)
TxCountGet ==
    /\ pc = "dispatch"
    /\ command = "tx-count"
    /\ \/ /\ ~is_address(address)
          /\ calls' = Append(calls, Call("get_transaction_count", FALSE))
          /\ Raise("ValueError", "to_checksum_address")
          /\ UNCHANGED <<queries, count>>
       \/ /\ is_address(address)
          /\ \E n \in 0..MaxNonce :
                /\ queries' = Append(queries,
                       Query("eth_getTransactionCount",
                             <<AddressParam(address), BlockParam(block_identifier)>>,
                             VStr(HexQuantity(n))))
                /\ count' = to_integer_if_hex(HexQuantity(n))
          /\ calls' = Append(calls, Call("get_transaction_count", TRUE))
          /\ pc' = "tx_count_print"
          /\ UNCHANGED <<stdout, stderr, exitCode, error>>
       \/ /\ is_address(address)
          /\ queries' = Append(queries,
                 Query("eth_getTransactionCount",
                       <<AddressParam(address), BlockParam(block_identifier)>>, Lost))
          /\ calls' = Append(calls, Call("get_transaction_count", FALSE))
          /\ Raise("TransportError", "get_transaction_count")
          /\ UNCHANGED count
    /\ UNCHANGED <<argsVars, client, info, balance, parsed, result, normalised>>

TxCountPrint ==
    /\ pc = "tx_count_print"
    /\ PrintAndReturn("line", VInt(count))
    /\ UNCHANGED <<argsVars, localVars, client, calls, queries>>

(***************************************************************************)
(* call, lines 108-112, with _load_params, EVMClient.call_method and       *)
(* _normalise.                                                             *)
(***************************************************************************)
CallLoadParams ==
    /\ pc = "dispatch"
    /\ command = "call"
    /\ parsed' = _load_params(params)
    /\ pc' = "call_method"
    /\ UNCHANGED <<argsVars, client, calls, queries, info, balance, count,
                   result, normalised, stdout, stderr, exitCode, error>>

\* the endpoint's reply to the generic request
EndpointReply(m, h, r) ==
    IF m = "eth_blockNumber" THEN VStr(BlockNumberReply(h)) ELSE r

\* a generic request that formats the reply as the typed method does
request_blocking_typed(m, reply) ==
    IF m = "eth_blockNumber" THEN VInt(to_integer_if_hex(reply.v)) ELSE reply

\* manager.request_blocking (client.py line 103): the decoded reply as it is
request_blocking(m, reply) == reply

CallMethod ==
    /\ pc = "call_method"
    /\ \/ /\ queries' = Append(queries,
                 Query(method, parsed, EndpointReply(method, height, rpcResult)))
          /\ result' = request_blocking(method,
                           EndpointReply(method, height, rpcResult))
          /\ calls' = Append(calls, Call("call_method", TRUE))
          /\ pc' = "call_normalise"
          /\ UNCHANGED <<stdout, stderr, exitCode, error>>
       \/ /\ queries' = Append(queries, Query(method, parsed, Lost))
          /\ calls' = Append(calls, Call("call_method", FALSE))
          /\ Raise("TransportError", "call_method")
          /\ UNCHANGED result
    /\ UNCHANGED <<argsVars, client, info, balance, count, parsed, normalised>>

CallNormalise ==
    /\ pc = "call_normalise"
    /\ \/ /\ NormaliseError(result) = ""
          /\ normalised' = _normalise(result)
          /\ pc' = "call_print"
          /\ UNCHANGED <<stdout, stderr, exitCode, error>>
       \/ /\ NormaliseError(result) # ""
          /\ Raise(NormaliseError(result), "_normalise")
          /\ UNCHANGED normalised
    /\ UNCHANGED <<argsVars, client, calls, queries, info, balance, count,
                   parsed, result>>

CallPrint ==
    /\ pc = "call_print"
    /\ \/ /\ JsonSerialisable(normalised)
          /\ PrintAndReturn("json", normalised)
       \/ /\ ~JsonSerialisable(normalised)
          /\ Raise("TypeError", "json.dumps")
    /\ UNCHANGED <<argsVars, localVars, client, calls, queries>>

Next ==
    \/ ConstructOk
    \/ ConstructFail
    \/ InfoChainId
    \/ InfoBlockNumber
    \/ InfoPrint
    \/ BalanceGet
    \/ BalancePrint
    \/ TxCountGet
    \/ TxCountPrint
    \/ CallLoadParams
    \/ CallMethod
    \/ CallNormalise
    \/ CallPrint

Spec == Init /\ [][Next]_vars

NextCall ==
    \/ ConstructOk
    \/ CallLoadParams
    \/ CallMethod
    \/ CallNormalise
    \/ CallPrint

SpecCall == InitCall /\ [][NextCall]_vars


(***************************************************************************)
(* The claims.                                                             *)
(***************************************************************************)
Terminated == pc \in {"done", "raised"}

Ops(cs) == [i \in 1..Len(cs) |-> cs[i].op]

\* the client operations of each command, in the order of run_cli
CommandOps(c) ==
    CASE c = "info" -> <<"chain_id", "block_number">>
      [] c = "balance" -> <<"get_balance">>
      [] c = "tx-count" -> <<"get_transaction_count">>
      [] c = "call" -> <<"call_method">>

IsPrefix(a, b) == Len(a) <= Len(b) /\ a = SubSeq(b, 1, Len(a))

AddressQueries ==
    {i \in 1..Len(queries) :
        queries[i].method \in {"eth_getBalance", "eth_getTransactionCount"}}

\* C1: when the liveness check of the construction fails, run_cli returns 1,
\* has written one message starting with "Connection failed: " to standard
\* error and nothing to standard output, and has dispatched no client
\* operation, whatever the command.
C1_ConnectionFailure ==
    (~reachable /\ pc # "start") =>
        /\ pc = "done"
        /\ exitCode = 1
        /\ Len(stderr) = 1
        /\ stderr[1].prefix = "Connection failed: "
        /\ stdout = <<>>
        /\ calls = <<>>
        /\ queries = <<>>
        /\ error = NoError

\* a call command against an unreachable endpoint has returned 1
C1_Witness ==
    ~reachable /\ pc = "done" /\ command = "call" /\ exitCode = 1

\* C2: a client operation that fails after a successful construction is the
\* last thing run_cli does: run_cli has not returned (neither 0 nor 1), the
\* failure leaves it, and standard output is empty.
C2_FailurePropagates ==
    \A i \in 1..Len(calls) :
        ~calls[i].ok =>
            /\ i = Len(calls)
            /\ client = "ok"
            /\ pc = "raised"
            /\ exitCode = -1
            /\ error.kind \in {"ValueError", "TransportError"}
            /\ stdout = <<>>
            /\ stderr = <<>>

\* info: chain_id has succeeded and block_number has failed
C2_Witness ==
    /\ command = "info"
    /\ Len(calls) = 2
    /\ calls[1].ok
    /\ ~calls[2].ok
    /\ pc = "raised"
    /\ stdout = <<>>

C4_Original ==
    (client = "ok" /\ Terminated) =>
        /\ exitCode = 0
        /\ Len(stdout) = 1
        /\ Ops(calls) = CommandOps(command)

AllSucceeded ==
    /\ Ops(calls) = CommandOps(command)
    /\ \A i \in 1..Len(calls) : calls[i].ok
    /\ command = "call" => /\ NormaliseError(result) = ""
                            /\ JsonSerialisable(_normalise(result))

\* C4, amended: an invocation with a constructed client invokes only the
\* operations of its command, each at most once and in order; when all of
\* them succeed (and, for call, the result normalises to a value json.dumps
\* accepts) it writes exactly one result to standard output, after the last
\* of them, and returns 0; otherwise it writes nothing to standard output
\* and does not return.
C4_OneCommandOneDispatchOneExit ==
    /\ IsPrefix(Ops(calls), CommandOps(command))
    /\ Len(stdout) <= 1
    /\ stdout # <<>> => pc = "done" /\ exitCode = 0 /\ AllSucceeded
    /\ (client = "ok" /\ Terminated /\ AllSucceeded)
          => pc = "done" /\ exitCode = 0 /\ Len(stdout) = 1
    /\ (client = "ok" /\ Terminated /\ ~AllSucceeded)
          => pc = "raised" /\ exitCode = -1 /\ stdout = <<>>

\* info has printed its one result and returned 0
C4_Witness ==
    /\ command = "info"
    /\ pc = "done"
    /\ exitCode = 0
    /\ Len(stdout) = 1
    /\ Ops(calls) = <<"chain_id", "block_number">>

CallBlockNumberDone ==
    /\ command = "call"
    /\ method = "eth_blockNumber"
    /\ params = <<>>
    /\ pc = "done"
    /\ exitCode = 0

InfoDone == command = "info" /\ pc = "done" /\ exitCode = 0

\* C7 as claimed: call eth_blockNumber prints the integer that info prints
\* as block_number against the same endpoint state.
C7_Original ==
    CallBlockNumberDone => /\ result.t = "int"
                           /\ result.v = block_number(height)
                           /\ stdout[1].val.t = "int"
                           /\ stdout[1].val.v = block_number(height)

\* C7, amended: call eth_blockNumber prints the endpoint's reply as it is, a
\* 0x-prefixed hexadecimal string; decoded, it is the integer that info
\* prints as block_number against the same endpoint state.
C7_RawQuantity ==
    /\ InfoDone => /\ stdout[1].val.v[2].k = <<"block_number">>
                   /\ stdout[1].val.v[2].val.t = "int"
                   /\ stdout[1].val.v[2].val.v = height
    /\ CallBlockNumberDone =>
          /\ stdout[1].val.t = "str"
          /\ Has0xPrefix(stdout[1].val.v)
          /\ HexDigitsValue(remove_0x_prefix(stdout[1].val.v)) = height

\* call eth_blockNumber has printed its result at the largest height
C7_Witness == CallBlockNumberDone /\ height = MaxBlock /\ Len(stdout) = 1

\* d * 10^EtherDecimals, for a Decimal d of at most EtherDecimals places
InWei(d) ==
    IF d.coef = 0 THEN 0 ELSE d.coef * (10 ^ (d.exp + EtherDecimals))

BalanceQueries ==
    {i \in 1..Len(queries) : queries[i].method = "eth_getBalance"}

\* C8: get_balance issues a single balance query and returns the amount of
\* the reply as wei and exactly wei / 10^18 as ether (ether * 10^18 is wei);
\* the balance command prints a JSON object of the two strings wei and
\* ether.
C8_BalanceExact ==
    (command = "balance" /\ pc \in {"balance_print", "done"} /\ client = "ok") =>
        /\ BalanceQueries = {2}
        /\ Len(queries) = 2
        /\ queries[2].reply.t = "str"
        /\ balance.wei = HexDigitsValue(remove_0x_prefix(queries[2].reply.v))
        /\ balance.wei >= 0
        /\ balance.ether.exp >= -EtherDecimals
        /\ balance.ether.exp <= 0
        /\ InWei(balance.ether) = balance.wei
        /\ pc = "done" =>
              /\ Len(stdout) = 1
              /\ stdout[1].fmt = "json"
              /\ stdout[1].val.t = "dict"
              /\ Len(stdout[1].val.v) = 2
              /\ stdout[1].val.v[1].k = <<"wei">>
              /\ stdout[1].val.v[1].val.t = "str"
              /\ DigitsValue(stdout[1].val.v[1].val.v) = balance.wei
              /\ stdout[1].val.v[2].k = <<"ether">>
              /\ stdout[1].val.v[2].val.t = "str"
              /\ stdout[1].val.v[2].val.v = DecimalStr(balance.ether)

\* balance has printed 20 wei, 2E-17 ether
C8_Witness ==
    /\ command = "balance"
    /\ pc = "done"
    /\ balance.wei = 20
    /\ balance.ether = Dec(2, -17)
    /\ stdout[1].val.v[2].val.v = <<"2", "E", "-", "1", "7">>


(***************************************************************************)
(* The claims about _load_params and _normalise, under SpecCall.           *)
(***************************************************************************)
\* the text without the whitespace around it
Trimmed(text) ==
    LET inked == {i \in 1..Len(text) : text[i] # " "}
    IN IF inked = {} THEN <<>>
       ELSE SubSeq(text, CHOOSE i \in inked : \A j \in inked : i <= j,
                         CHOOSE i \in inked : \A j \in inked : i >= j)

\* the JSON grammar of an integer: -?(0|[1-9][0-9]*)
IsJsonInteger(t) ==
    LET body == IF Len(t) > 0 /\ t[1] = "-" THEN Tail(t) ELSE t
    IN /\ Len(body) >= 1
       /\ \A i \in 1..Len(body) : IsDigit(body[i])
       /\ Len(body) > 1 => body[1] # "0"

\* the JSON grammar of a string without escapes
IsJsonString(t) ==
    /\ Len(t) >= 2
    /\ t[1] = "\""
    /\ t[Len(t)] = "\""
    /\ \A i \in 2..(Len(t) - 1) : t[i] # "\""

\* the decoding of C5 as claimed: JSON texts to their values, every other
\* text to itself
DecodedAsJson(text, val) ==
    IF IsJsonInteger(Trimmed(text))
    THEN /\ val.t = "int"
         /\ \/ IntStr(val.v) = Trimmed(text)
            \/ Trimmed(text) = <<"-", "0">> /\ val.v = 0
    ELSE IF IsJsonString(Trimmed(text))
    THEN /\ val.t = "str"
         /\ <<"\"">> \o val.v \o <<"\"">> = Trimmed(text)
    ELSE /\ val.t = "str"
         /\ val.v = text

\* C5 as claimed: a text that is valid JSON is decoded, any other text is
\* passed through as the literal string; the list keeps length and order
\* and is the list handed to call_method.
C5_Original ==
    (pc \notin {"start", "dispatch"}) =>
        /\ Len(parsed) = Len(params)
        /\ \A i \in 1..Len(params) : DecodedAsJson(params[i], parsed[i])
        /\ Len(queries) >= 2 => queries[2].params = parsed

\* C5, amended: _load_params decodes the parameters one by one, in order:
\* a text that json.loads decodes becomes its value (44 the integer 44;
\* also NaN, which is no JSON, the float nan), a text it rejects with
\* JSONDecodeError stays the literal string it is; and the decoded list is
\* the parameter list the endpoint receives with the method.
C5_ParamsDecoded ==
    (pc \notin {"start", "dispatch"}) =>
        /\ Len(parsed) = Len(params)
        /\ \A i \in 1..Len(params) :
              IF Trimmed(params[i]) = <<"N", "a", "N">>
              THEN parsed[i].t = "float" /\ parsed[i].v = VNaN.v
              ELSE DecodedAsJson(params[i], parsed[i])
        /\ error.at \notin {"_load_params", "json.loads"}
        /\ Len(queries) >= 2 =>
              /\ queries[2].method = method
              /\ queries[2].params = parsed

\* call with the parameters 44 and a has been sent and has returned
C5_Witness ==
    /\ params = <<<<"4", "4">>, <<"a">>>>
    /\ parsed = <<VInt(44), VStr(<<"a">>)>>
    /\ Len(queries) = 2
    /\ queries[2].params = <<VInt(44), VStr(<<"a">>)>>
    /\ pc = "done"

\* _normalise(result) has returned
Normalised ==
    \/ pc \in {"call_print", "done"}
    \/ pc = "raised" /\ error.at = "json.dumps"

\* C6: _normalise is idempotent: the value it returns is a value it
\* returns unchanged.
C6_NormaliseIdempotent ==
    Normalised => /\ NormaliseError(normalised) = ""
                  /\ _normalise(normalised) = normalised

\* a mapping of a list of bytes has been normalised
C6_Witness ==
    /\ pc = "call_print"
    /\ result = VAttrDict(<<[k |-> Key(1), val |-> VList(<<VBytes(<<171, 5>>)>>)]>>)
    /\ normalised.t = "dict"
    /\ normalised.v[1].val.v[1].t = "str"

LowerHexChars == {HexDigits[i] : i \in 1..16}

\* chars is the lowercase hexadecimal text of the bytes
IsLowerHexOf(chars, bytes) ==
    /\ Len(chars) = 2 * Len(bytes)
    /\ \A i \in 1..Len(chars) : chars[i] \in LowerHexChars
    /\ \A i \in 1..Len(bytes) :
          16 * HexVal(chars[2 * i - 1]) + HexVal(chars[2 * i]) = bytes[i]

\* w has the shape of v: mappings are plain mappings of the same keys,
\* sequences are sequences of the same kind and length, element by
\* element, and bytes are their lowercase hex text
RECURSIVE SameShape(_, _)
SameShape(v, w) ==
    IF v.t = "adict"
    THEN /\ w.t = "dict"
         /\ Len(w.v) = Len(v.v)
         /\ \A i \in 1..Len(v.v) : /\ w.v[i].k = v.v[i].k
                                   /\ SameShape(v.v[i].val, w.v[i].val)
    ELSE IF v.t \in {"list", "tuple"}
    THEN /\ w.t = v.t
         /\ Len(w.v) = Len(v.v)
         /\ \A i \in 1..Len(v.v) : SameShape(v.v[i], w.v[i])
    ELSE IF v.t = "bytes"
    THEN w.t = "str" /\ IsLowerHexOf(w.v, v.v)
    ELSE TRUE

RECURSIVE NoBytes(_)
NoBytes(w) ==
    IF w.t \in {"list", "tuple"} THEN \A i \in 1..Len(w.v) : NoBytes(w.v[i])
    ELSE IF w.t \in {"dict", "adict"}
    THEN \A i \in 1..Len(w.v) : NoBytes(w.v[i].val)
    ELSE w.t # "bytes"

\* C9: the normalised value has the shape of the response at every depth:
\* a mapping is a plain mapping with the same keys, a sequence a sequence
\* of the same length and order, a byte sequence its lowercase hexadecimal
\* string; no byte sequence is left in it.
C9_NormaliseRecursive ==
    Normalised => SameShape(result, normalised) /\ NoBytes(normalised)

\* bytes in a mapping in a list have been normalised
C9_Witness ==
    /\ pc = "call_print"
    /\ result = VList(<<VAttrDict(<<[k |-> Key(1), val |-> VBytes(<<171, 5>>)]>>)>>)
    /\ normalised = VList(<<VDict(<<[k |-> Key(1),
                                     val |-> VStr(<<"a", "b", "0", "5">>)]>>)>>)

\* C10 as claimed: a failing hex conversion never makes _normalise fail.
C10_Original == error.at # "_normalise"

\* the values of v that _normalise visits and that are of the given tag
RECURSIVE Visited(_, _)
Visited(v, tag) ==
    (IF v.t = tag THEN {v} ELSE {})
    \cup (IF v.t \in {"list", "tuple"}
          THEN UNION {Visited(v.v[i], tag) : i \in 1..Len(v.v)}
          ELSE IF v.t = "adict"
          THEN UNION {Visited(v.v[i].val, tag) : i \in 1..Len(v.v)}
          ELSE {})

\* every object of v is the same object at the same place of w
RECURSIVE ObjectsKept(_, _)
ObjectsKept(v, w) ==
    IF v.t = "adict"
    THEN \A i \in 1..Len(v.v) : ObjectsKept(v.v[i].val, w.v[i].val)
    ELSE IF v.t \in {"list", "tuple"}
    THEN \A i \in 1..Len(v.v) : ObjectsKept(v.v[i], w.v[i])
    ELSE v.t = "obj" => (w.t = "obj" /\ w.v = v.v)

\* C10, amended: a hex conversion that fails with a TypeError is ignored
\* and the value is kept as it is; a hex conversion that fails with any
\* other exception makes _normalise, and the call command, fail with it.
C10_OnlyTypeErrorIgnored ==
    /\ Normalised =>
          /\ \A o \in Visited(result, "obj") : o.v = "TypeError"
          /\ ObjectsKept(result, normalised)
    /\ (pc = "raised" /\ error.at = "_normalise") =>
          /\ error.kind # "TypeError"
          /\ VObj(error.kind) \in Visited(result, "obj")
          /\ stdout = <<>>
    /\ (pc \in {"call_print", "done", "raised"}
        /\ calls # <<>> /\ calls[1].ok
        /\ \E o \in Visited(result, "obj") : o.v # "TypeError")
       => (pc = "raised" /\ error.at = "_normalise")

\* an object whose hex() raises TypeError has been kept, beside a converted float
C10_Witness ==
    /\ pc = "call_print"
    /\ result = VTuple(<<VObj("TypeError"), VFloat(1)>>)
    /\ normalised.v[1] = VObj("TypeError")
    /\ normalised.v[2].t = "str"


====
